---- MODULE Spec2Model ----
(***************************************************************************)
(* Model of the axe EF backend: the HTTP routes of features/axe_ef, the    *)
(* axis service, the existence-verification helper, the ORM CRUD           *)
(* procedures and the request-scoped database sessions.                    *)
(*                                                                         *)
(* Three specifications are given.                                         *)
(*   Spec         the axe EF routes and service methods acting on the      *)
(*                database tables axe_ef and axe_ef_section, one request   *)
(*                at a time, each on its own session;                      *)
(*   SessionSpec  the life cycle of the sessions yielded by                *)
(*                get_sync_session and get_async_session, with the lazily  *)
(*                constructed session factories they share;                *)
(*   CrudSpec     single calls of the existence-verification helpers, of   *)
(*                the integrity-error translations and of the batch        *)
(*                upsert, on databases and arguments drawn from bounded    *)
(*                sets.                                                    *)
(***************************************************************************)
EXTENDS Integers, Sequences, FiniteSets, TLC

VARIABLES
    db,        \* committed content of the tables axe_ef and axe_ef_section
    db_session, \* the session of the request being served, NoSession between requests
    resp,      \* the request being served and its response, NoResponse between requests
    spc,       \* SessionSpec: position of each request in its session generator
    skind,     \* SessionSpec: which generator serves the request
    slog,      \* SessionSpec: calls received by the session object of each request
    soutcome,  \* SessionSpec: how the request handler ended
    _sync_sessionmaker,   \* SessionSpec: the module global, 0 for None
    _async_sessionmaker,  \* SessionSpec: the module global, 0 for None
    sm_made,   \* SessionSpec: the session factories constructed, by kind
    sm_got,    \* SessionSpec: the factory each request was handed, 0 before
    call       \* CrudSpec: the helper call made, its arguments and its result

vars == <<db, db_session, resp, spc, skind, slog, soutcome,
          _sync_sessionmaker, _async_sessionmaker, sm_made, sm_got, call>>
apiVars == <<db, db_session, resp>>
sessionVars == <<spc, skind, slog, soutcome>>
factoryVars == <<_sync_sessionmaker, _async_sessionmaker, sm_made, sm_got>>
crudVars == <<call>>

(***************************************************************************)
(* Bounds                                                                  *)
(***************************************************************************)
NumAxeIds == 2      \* identifiers uuid4 may draw, and that requests may name
NumLabels == 2      \* distinct axis labels
NumSections == 2    \* rows of the section table, onb_tcap 1..NumSections
NumRequests == 2    \* requests in flight in SessionSpec
NumMainIds == 1     \* primary keys of the tables the CRUD helpers are called on

AxeIds == 1..NumAxeIds
Labels == 1..NumLabels
UserIds == {7, 8}

(***************************************************************************)
(* Reference data owned by other services: service periods and sections.   *)
(* The model keeps them fixed.  "sa0" and onb_tcap 0 match no row.          *)
(***************************************************************************)
ServiceAnnuelTable == {"sa1", "sa2"}
RequestServiceAnnuels == ServiceAnnuelTable \cup {"sa0"}

SectionOnbs == 1..NumSections
RequestOnbs == 0..NumSections

SectionAxeRow(onb) ==
    [onb_tcap |-> onb,
     libelle |-> <<"section", onb>>,
     service_annuel_id |-> IF onb % 2 = 1 THEN "sa1" ELSE "sa2"]

SectionAxeTable == {SectionAxeRow(onb) : onb \in SectionOnbs}

\* the track segments (ligne, voie, pk) of the sections: two for a section of
\* odd onb_tcap, none for the others
LvpkSectionAxeTable ==
    {row \in [section_axe_onb : SectionOnbs, ligne : {1, 2}] : row.section_axe_onb % 2 = 1}

(***************************************************************************)
(* Outcomes of a call: a returned value or a raised exception.             *)
(***************************************************************************)
NoValue == [none |-> TRUE]

Returned(v) == [raised |-> "none", status |-> 0, detail |-> NoValue, value |-> v]

HTTPException(status_code, detail) ==
    [raised |-> "HTTPException", status |-> status_code, detail |-> detail, value |-> NoValue]

TypeError(detail) ==
    [raised |-> "TypeError", status |-> 0, detail |-> detail, value |-> NoValue]

HTTP_200_OK == 200
HTTP_201_CREATED == 201
HTTP_400_BAD_REQUEST == 400
HTTP_404_NOT_FOUND == 404
HTTP_409_CONFLICT == 409
HTTP_500_INTERNAL_SERVER_ERROR == 500

(***************************************************************************)
(* crud_verify_existence.py                                                *)
(*                                                                         *)
(* object_id is [multiple |-> FALSE, key |-> k] for a scalar identifier     *)
(* and [multiple |-> TRUE, key |-> S] for a list of identifiers (the query  *)
(* is an IN over the list, so the list counts as the set S of its items).  *)
(* A table is given by the set of its rows and the column looked up.       *)
(***************************************************************************)
Scalar(k) == [multiple |-> FALSE, key |-> k]
List(S) == [multiple |-> TRUE, key |-> S]

\* None, for an argument that names a column
NoColumn == "None"

\* the values Python takes for false among the column values of the model
Falsy(value) == value \in {"", "None"}

\* .scalars(): the entity of each selected row, or its returned_column
Scalars(selected, returned_column) ==
    IF returned_column = NoColumn THEN selected ELSE {row[returned_column] : row \in selected}

_verify_existence_and_get_stmt(object_id, rows, model_column_id, returned_column) ==
    LET column == IF model_column_id = NoColumn THEN "id" ELSE model_column_id
    IN  IF ~object_id.multiple
        THEN [selected |-> {row \in rows : row[column] = object_id.key},
              returned_column |-> returned_column, multiple_result |-> FALSE]
        ELSE [selected |-> {row \in rows : row[column] \in object_id.key},
              returned_column |-> returned_column, multiple_result |-> TRUE]

\* .scalars().first(): the first scalar of the selection, or None (NoValue)
\* when the selection is empty
First(scalars) == IF scalars = {} THEN NoValue ELSE CHOOSE x \in scalars : TRUE

\* `not result`: an empty list, None, or a column value that Python takes
\* for false; an entity is never false
NotResult(stmt, result) ==
    IF stmt.multiple_result THEN result = {}
    ELSE IF stmt.selected = {} THEN TRUE
    ELSE IF stmt.returned_column = NoColumn THEN FALSE
    ELSE Falsy(result)

\* as verify_existence_and_get, raising only when the caller wants the result
verify_existence_and_get_raise_if_wanted(object_id, tablename, rows, model_column_id, returned_column, return_model) ==
    LET stmt == _verify_existence_and_get_stmt(object_id, rows, model_column_id, returned_column)
        scalars == Scalars(stmt.selected, returned_column)
        result == IF stmt.multiple_result THEN scalars ELSE First(scalars)
    IN  IF NotResult(stmt, result) /\ return_model
        THEN HTTPException(HTTP_404_NOT_FOUND, <<tablename, object_id.key, "does not exists">>)
        ELSE IF return_model THEN Returned(result) ELSE Returned(NoValue)

verify_existence_and_get(object_id, tablename, rows, model_column_id, returned_column, return_model) ==
    LET stmt == _verify_existence_and_get_stmt(object_id, rows, model_column_id, returned_column)
        scalars == Scalars(stmt.selected, returned_column)
        result == IF stmt.multiple_result THEN scalars ELSE First(scalars)
    IN  IF NotResult(stmt, result)
        THEN HTTPException(HTTP_404_NOT_FOUND, <<tablename, object_id.key, "does not exists">>)
        ELSE IF return_model THEN Returned(result) ELSE Returned(NoValue)

async_verify_existence_and_get(object_id, tablename, rows, model_column_id, returned_column, return_model, ignore_not_found) ==
    LET stmt == _verify_existence_and_get_stmt(object_id, rows, model_column_id, returned_column)
        scalars == Scalars(stmt.selected, returned_column)
        result == IF stmt.multiple_result THEN scalars ELSE First(scalars)
    IN  IF ~ignore_not_found /\ NotResult(stmt, result)
        THEN HTTPException(HTTP_404_NOT_FOUND, <<tablename, object_id.key, "does not exist">>)
        ELSE IF return_model THEN Returned(result) ELSE Returned(NoValue)

(***************************************************************************)
(* The database.  axe_ef holds one row per axis, axe_ef_section one row    *)
(* per (axis, section) association.  A session works on a pending copy of  *)
(* the committed tables; commit publishes it, rollback and close drop it.  *)
(***************************************************************************)
AxeEfRow(id, libelle, service_annuel_id) ==
    [id |-> id, libelle |-> libelle, service_annuel_id |-> service_annuel_id]

AxeEfSectionRow(axe_ef_id, onb) == [axe_ef_id |-> axe_ef_id, section_axe_onb |-> onb]

EmptyDb == [axe_ef |-> {}, axe_ef_section |-> {}]

StoredIds(d) == {row.id : row \in d.axe_ef}
StoredSections(d, id) == {a.section_axe_onb : a \in {x \in d.axe_ef_section : x.axe_ef_id = id}}

Session(d) == [committed |-> d, pending |-> d]

\* Constraints of the axe_ef table checked when the pending rows are flushed:
\* the primary key and the label are unique.
IntegrityViolation(pending) ==
    IF \E r1, r2 \in pending.axe_ef : r1 # r2 /\ (r1.id = r2.id \/ r1.libelle = r2.libelle)
    THEN "UniqueViolation"
    ELSE "none"

(***************************************************************************)
(* crud_sync_service.py                                                    *)
(***************************************************************************)
\* the rows an AxeEf object and its sections collection map to
ObjectRow(db_object) == AxeEfRow(db_object.id, db_object.libelle, db_object.service_annuel_id)
ObjectLinks(db_object) == {AxeEfSectionRow(db_object.id, sec.onb_tcap) : sec \in db_object.sections}

\* as IntegrityStatus, with the unique violation not recognised
IntegrityStatus_unique_unrecognised(orig) ==
    IF orig = "NotNullViolation" THEN HTTP_400_BAD_REQUEST
    ELSE HTTP_500_INTERNAL_SERVER_ERROR

IntegrityStatus(orig) ==
    IF orig = "UniqueViolation" THEN HTTP_409_CONFLICT
    ELSE IF orig = "NotNullViolation" THEN HTTP_400_BAD_REQUEST
    ELSE HTTP_500_INTERNAL_SERVER_ERROR

\* flush then commit; an IntegrityError of the flush is translated and the
\* commit is not reached
_commit_and_log_session(session, db_object, tablename) ==
    LET orig == IntegrityViolation(session.pending)
    IN  IF orig # "none"
        THEN [session |-> session,
              outcome |-> HTTPException(IntegrityStatus(orig),
                                        <<tablename, db_object.libelle, orig>>)]
        ELSE [session |-> [session EXCEPT !.committed = session.pending],
              outcome |-> Returned(NoValue)]

\* as execute_stmt, with the not-null violation falling to the last branch
execute_stmt_not_null_unrecognised(orig, tablename, libelle) ==
    IF orig = "none" THEN Returned(NoValue)
    ELSE IF orig = "UniqueViolation"
    THEN HTTPException(HTTP_409_CONFLICT, <<tablename, libelle, orig>>)
    ELSE HTTPException(HTTP_500_INTERNAL_SERVER_ERROR, <<"Database integrity error", orig>>)

\* session.execute(stmt) inside try/except IntegrityError; orig is the error
\* the database raised for the statement, "none" when it raised none
execute_stmt(orig, tablename, libelle) ==
    IF orig = "none" THEN Returned(NoValue)
    ELSE IF orig = "UniqueViolation"
    THEN HTTPException(HTTP_409_CONFLICT, <<tablename, libelle, orig>>)
    ELSE IF orig = "NotNullViolation"
    THEN HTTPException(HTTP_400_BAD_REQUEST, <<tablename, libelle, orig>>)
    ELSE HTTPException(HTTP_500_INTERNAL_SERVER_ERROR, <<"Database integrity error", orig>>)

(***************************************************************************)
(* The batch upsert.  It works on a main table and on the dependent tables *)
(* named by sub_object_models.  A main row has the columns id, created_at, *)
(* created_by and libelle; a dependent row has its own id and the column   *)
(* parent_id that refers to its main row.  A payload (object_to_insert) is *)
(* a dict: a function from the keys it holds to their values.  A run of    *)
(* the procedure is [pending, committed, log, outcome]: the tables as the  *)
(* session sees them, the tables as committed, the statements and hooks    *)
(* issued so far, and the exception raised, if any.                        *)
(***************************************************************************)
MainColumns == {"id", "created_at", "created_by", "libelle"}

DictGet(dict, key, default) == IF key \in DOMAIN dict THEN dict[key] ELSE default

\* the dict without the keys popped from it
Pop(dict, keys) == [k \in (DOMAIN dict) \ keys |-> dict[k]]

Range(seq) == {seq[i] : i \in 1..Len(seq)}

Exception(kind, detail) ==
    [raised |-> kind, status |-> HTTP_500_INTERNAL_SERVER_ERROR, detail |-> detail,
     value |-> NoValue]

LogEntry(op, table, columns) == [op |-> op, table |-> table, columns |-> columns]

Begin(tables) ==
    [pending |-> tables, committed |-> tables, log |-> <<>>, outcome |-> Returned(NoValue)]

Issue(run, entry) == [run EXCEPT !.log = Append(@, entry)]
Raise(run, exception) == [run EXCEPT !.outcome = exception]
Running(run) == run.outcome.raised = "none"

\* hook(session=session): a hook is "None", a callable that returns or one
\* that raises; calling None is a TypeError
CallHook(run, hook, name) ==
    IF hook = "None"
    THEN Raise(run, TypeError(<<"'NoneType' object is not callable">>))
    ELSE IF hook = "raises"
    THEN Raise(Issue(run, LogEntry(name, "", {})), Exception("Exception", <<name>>))
    ELSE Issue(run, LogEntry(name, "", {}))

\* as delete_object, without the existence verification
delete_object_unverified(object_ids, model_to_delete, model_column_id, run) ==
    LET column == IF model_column_id = NoColumn THEN "id" ELSE model_column_id
    IN  Issue([run EXCEPT !.pending.sub[model_to_delete] =
                              {row \in @ : row[column] \notin object_ids}],
              LogEntry("delete", model_to_delete, {}))

delete_object(object_ids, model_to_delete, model_column_id, run) ==
    LET found == verify_existence_and_get(List(object_ids), "main", run.pending.main,
                                          NoColumn, NoColumn, TRUE)
        column == IF model_column_id = NoColumn THEN "id" ELSE model_column_id
        selected == Issue(run, LogEntry("select", "main", {}))
    IN  IF found.raised # "none" THEN Raise(selected, found)
        ELSE Issue([selected EXCEPT !.pending.sub[model_to_delete] =
                                        {row \in @ : row[column] \notin object_ids}],
                   LogEntry("delete", model_to_delete, {}))

\* INSERT INTO main ... [ON CONFLICT (id) DO UPDATE SET update_columns]: the
\* error the database raises, "none" if none, and the rows of main afterwards.
\* The primary key and the label are unique; a column the statement does
\* not set is NULL in an inserted row.
InsertMain(main, values, on_conflict, update_columns) ==
    LET existing == {row \in main : row.id = values.id}
        others == main \ existing
        inserted == [id |-> values.id,
                     created_at |-> DictGet(values, "created_at", "None"),
                     created_by |-> DictGet(values, "created_by", 0),
                     libelle |-> DictGet(values, "libelle", 0)]
        old == CHOOSE row \in existing : TRUE
        updated == [id |-> old.id,
                    created_at |-> IF "created_at" \in update_columns
                                   THEN values.created_at ELSE old.created_at,
                    created_by |-> IF "created_by" \in update_columns
                                   THEN values.created_by ELSE old.created_by,
                    libelle |-> IF "libelle" \in update_columns
                                THEN values.libelle ELSE old.libelle]
        row == IF existing = {} THEN inserted ELSE updated
    IN  IF existing # {} /\ ~on_conflict
        THEN [orig |-> "UniqueViolation", rows |-> main]
        ELSE IF \E other \in others : other.libelle = row.libelle /\ row.libelle # 0
        THEN [orig |-> "UniqueViolation", rows |-> main]
        ELSE [orig |-> "none", rows |-> others \cup {row}]

\* for model, objs in sub_objects: one insert statement for a non-empty
\* collection, none for an empty one; an IntegrityError of these statements
\* is not caught
RECURSIVE InsertSubObjects(_, _, _)
InsertSubObjects(run, sub_objects, object_to_insert) ==
    IF sub_objects = <<>> \/ ~Running(run) THEN run
    ELSE LET model == Head(sub_objects)
             objs == object_to_insert[model]
             stored == run.pending.sub[model]
             next == IF objs = {} THEN run
                     ELSE IF \E obj \in objs, row \in stored : obj.id = row.id
                     THEN Raise(Issue(run, LogEntry("insert", model, {})),
                                Exception("IntegrityError", <<model, "UniqueViolation">>))
                     ELSE Issue([run EXCEPT !.pending.sub[model] = @ \cup objs],
                                LogEntry("insert", model, {}))
         IN  InsertSubObjects(next, Tail(sub_objects), object_to_insert)

\* as insert_procedure, with created_by among the columns updated on conflict
insert_procedure_updates_created_by(run, object_to_insert, sub_object_models, do_update) ==
    LET Given(key) == key \in DOMAIN object_to_insert
        sub_objects == SelectSeq(sub_object_models, Given)
        values == Pop(object_to_insert, Range(sub_object_models))
        update_columns == {key \in DOMAIN values : key \notin {"id", "created_at"}}
    IN  IF do_update /\ update_columns = {}
        THEN Raise(run, Exception("ValueError", <<"set parameter dictionary must not be empty">>))
        ELSE LET done == InsertMain(run.pending.main, values, do_update, update_columns)
                 executed == Raise(Issue([run EXCEPT !.pending.main = done.rows],
                                         LogEntry("insert", "main", DOMAIN values)),
                                   execute_stmt(done.orig, "main", DictGet(values, "libelle", 0)))
             IN  InsertSubObjects(executed, sub_objects, object_to_insert)

insert_procedure(run, object_to_insert, sub_object_models, do_update) ==
    LET Given(key) == key \in DOMAIN object_to_insert
        sub_objects == SelectSeq(sub_object_models, Given)
        values == Pop(object_to_insert, Range(sub_object_models))
        update_columns == {key \in DOMAIN values :
                              key \notin {"id", "created_at", "created_by"}}
    IN  IF do_update /\ update_columns = {}
        THEN Raise(run, Exception("ValueError", <<"set parameter dictionary must not be empty">>))
        ELSE LET done == InsertMain(run.pending.main, values, do_update, update_columns)
                 executed == Raise(Issue([run EXCEPT !.pending.main = done.rows],
                                         LogEntry("insert", "main", DOMAIN values)),
                                   execute_stmt(done.orig, "main", DictGet(values, "libelle", 0)))
             IN  InsertSubObjects(executed, sub_objects, object_to_insert)

\* for key, sub_model in sub_object_models.items(): delete_object(...), then
\* the hook call guarded by `if execute_after_insert`
RECURSIVE DeleteSubObjects(_, _, _, _, _, _)
DeleteSubObjects(run, sub_object_models, updated_ids, sub_obj_parent_columns, execute_after_insert, execute_after_delete) ==
    IF sub_object_models = <<>> \/ ~Running(run) THEN run
    ELSE LET key == Head(sub_object_models)
             deleted == delete_object(updated_ids, key,
                                      DictGet(sub_obj_parent_columns, key, NoColumn), run)
             hooked == IF Running(deleted) /\ execute_after_insert # "None"
                       THEN CallHook(deleted, execute_after_delete, "execute_after_delete")
                       ELSE deleted
         IN  DeleteSubObjects(hooked, Tail(sub_object_models), updated_ids,
                              sub_obj_parent_columns, execute_after_insert,
                              execute_after_delete)

\* as upsert_procedure, committing after the primary and dependent inserts and
\* before the post-insert hook
upsert_procedure_commits_before_hook(tables, object_to_insert, sub_object_models, sub_obj_parent_columns, do_update, execute_after_insert, execute_after_delete) ==
    LET deleted == IF do_update
                   THEN DeleteSubObjects(Begin(tables), sub_object_models,
                                         {DictGet(object_to_insert, "id", 0)},
                                         sub_obj_parent_columns, execute_after_insert,
                                         execute_after_delete)
                   ELSE Begin(tables)
        inserted == IF Running(deleted)
                    THEN insert_procedure(deleted, object_to_insert, sub_object_models,
                                          do_update)
                    ELSE deleted
        committed == IF Running(inserted)
                     THEN Issue([inserted EXCEPT !.committed = inserted.pending],
                                LogEntry("commit", "", {}))
                     ELSE inserted
    IN  IF Running(committed) /\ execute_after_insert # "None"
        THEN CallHook(committed, execute_after_insert, "execute_after_insert")
        ELSE committed

upsert_procedure(tables, object_to_insert, sub_object_models, sub_obj_parent_columns, do_update, execute_after_insert, execute_after_delete) ==
    LET deleted == IF do_update
                   THEN DeleteSubObjects(Begin(tables), sub_object_models,
                                         {DictGet(object_to_insert, "id", 0)},
                                         sub_obj_parent_columns, execute_after_insert,
                                         execute_after_delete)
                   ELSE Begin(tables)
        inserted == IF Running(deleted)
                    THEN insert_procedure(deleted, object_to_insert, sub_object_models,
                                          do_update)
                    ELSE deleted
        hooked == IF Running(inserted) /\ execute_after_insert # "None"
                  THEN CallHook(inserted, execute_after_insert, "execute_after_insert")
                  ELSE inserted
    IN  IF Running(hooked)
        THEN Issue([hooked EXCEPT !.committed = hooked.pending], LogEntry("commit", "", {}))
        ELSE hooked

\* session.add(db_object), then flush and commit
create_procedure(db_object, session) ==
    LET added == [axe_ef |-> session.pending.axe_ef \cup {ObjectRow(db_object)},
                  axe_ef_section |-> session.pending.axe_ef_section \cup ObjectLinks(db_object)]
    IN  _commit_and_log_session([session EXCEPT !.pending = added], db_object, "axe_ef")

\* as update_procedure, with the cleared collection committed where the code
\* flushes it
update_procedure_commits_cleared(db_object, obj_to_update, session) ==
    LET cleared == [session.pending EXCEPT
                      !.axe_ef_section = {a \in @ : a.axe_ef_id # obj_to_update.id}]
        merged == [axe_ef |-> {row \in cleared.axe_ef : row.id # db_object.id}
                                  \cup {ObjectRow(db_object)},
                   axe_ef_section |-> {a \in cleared.axe_ef_section : a.axe_ef_id # db_object.id}
                                  \cup ObjectLinks(db_object)]
    IN  _commit_and_log_session([committed |-> cleared, pending |-> merged], db_object, "axe_ef")

\* obj_to_update.sections.clear() and flush, session.merge(db_object), then
\* flush and commit
update_procedure(db_object, obj_to_update, session) ==
    LET cleared == [session.pending EXCEPT
                      !.axe_ef_section = {a \in @ : a.axe_ef_id # obj_to_update.id}]
        merged == [axe_ef |-> {row \in cleared.axe_ef : row.id # db_object.id}
                                  \cup {ObjectRow(db_object)},
                   axe_ef_section |-> {a \in cleared.axe_ef_section : a.axe_ef_id # db_object.id}
                                  \cup ObjectLinks(db_object)]
    IN  _commit_and_log_session([session EXCEPT !.pending = merged], db_object, "axe_ef")

\* The creation and modification columns of an axis row.  The tables of the
\* model leave them out; these two operators give what session.add and
\* session.merge do to them.  An attribute that was never set on db_object
\* is NULL in the row session.add inserts, and session.merge copies to the
\* stored row the attributes that are set on db_object and no other.
AddedDates(db_object) ==
    [id |-> db_object.id,
     created_at |-> DictGet(db_object, "created_at", "None"),
     created_by |-> DictGet(db_object, "created_by", 0),
     modified_at |-> DictGet(db_object, "modified_at", "None"),
     modified_by |-> DictGet(db_object, "modified_by", 0)]

MergedDates(db_object, stored) ==
    [id |-> stored.id,
     created_at |-> DictGet(db_object, "created_at", stored.created_at),
     created_by |-> DictGet(db_object, "created_by", stored.created_by),
     modified_at |-> DictGet(db_object, "modified_at", stored.modified_at),
     modified_by |-> DictGet(db_object, "modified_by", stored.modified_by)]

\* as delete_procedure, with the association rows deleted and the axis kept
delete_procedure_keeps_axis(db_object, session) ==
    LET deleted == [axe_ef |-> session.pending.axe_ef,
                    axe_ef_section |-> {a \in session.pending.axe_ef_section :
                                            a.axe_ef_id # db_object.id}]
    IN  _commit_and_log_session([session EXCEPT !.pending = deleted], db_object, "axe_ef")

\* session.delete(db_object), then flush and commit; the association rows of
\* the deleted axis go with it
delete_procedure(db_object, session) ==
    LET deleted == [axe_ef |-> {row \in session.pending.axe_ef : row.id # db_object.id},
                    axe_ef_section |-> {a \in session.pending.axe_ef_section :
                                            a.axe_ef_id # db_object.id}]
    IN  _commit_and_log_session([session EXCEPT !.pending = deleted], db_object, "axe_ef")

(***************************************************************************)
(* features/axe_ef/service.py                                              *)
(***************************************************************************)
\* an axis loaded with its sections collection
LoadAxeEf(row, d) ==
    [id |-> row.id, libelle |-> row.libelle, service_annuel_id |-> row.service_annuel_id,
     sections |-> {sec \in SectionAxeTable : sec.onb_tcap \in StoredSections(d, row.id)}]

SectionAxeProto(sec) ==
    [onb_tcap |-> sec.onb_tcap, libelle |-> sec.libelle,
     service_annuel_id |-> sec.service_annuel_id]

\* rows ordered by libelle
RECURSIVE OrderByLibelle(_)
OrderByLibelle(rows) ==
    IF rows = {} THEN <<>>
    ELSE LET first == CHOOSE row \in rows : \A other \in rows : row.libelle <= other.libelle
         IN  <<first>> \o OrderByLibelle(rows \ {first})

\* AxeEf joined to AxeEfSection joined to LvpkSectionAxe
JoinedLvpks(d) ==
    {row \in [axe_ef : d.axe_ef, lvpk : LvpkSectionAxeTable] :
        \E a \in d.axe_ef_section :
            /\ a.axe_ef_id = row.axe_ef.id
            /\ a.section_axe_onb = row.lvpk.section_axe_onb}

\* as get_all_axes_ef, without the group by: one item per joined row
get_all_axes_ef_ungrouped(session) ==
    LET joined == JoinedLvpks(session.pending)
        selected == {[id |-> row.axe_ef.id, libelle |-> row.axe_ef.libelle,
                      lvpks |-> {row.lvpk}] : row \in joined}
    IN  Returned([items |-> OrderByLibelle(selected),
                  count |-> Cardinality(session.pending.axe_ef)])

\* the joined rows grouped by axis with their lvpks aggregated, ordered by
\* libelle; and the count of all rows of axe_ef
get_all_axes_ef(session) ==
    LET joined == JoinedLvpks(session.pending)
        selected == {[id |-> axe_ef.id, libelle |-> axe_ef.libelle,
                      lvpks |-> {row.lvpk : row \in {j \in joined : j.axe_ef = axe_ef}}] :
                        axe_ef \in {row.axe_ef : row \in joined}}
    IN  Returned([items |-> OrderByLibelle(selected),
                  count |-> Cardinality(session.pending.axe_ef)])

get_axe_ef(axe_ef_id, session) ==
    LET found == verify_existence_and_get(Scalar(axe_ef_id), "axe_ef",
                                          session.pending.axe_ef, NoColumn, NoColumn, TRUE)
    IN  IF found.raised # "none" THEN found
        ELSE LET axe_ef == LoadAxeEf(found.value, session.pending)
             IN  Returned([id |-> axe_ef.id,
                           libelle |-> axe_ef.libelle,
                           service_annuel_id |-> axe_ef.service_annuel_id,
                           section_axes |-> {SectionAxeProto(sec) : sec \in axe_ef.sections}])

\* as _validate_sections, without the check of the service period
_validate_sections_empty_only(sections_axes, service_annuel_id) ==
    IF sections_axes = {}
    THEN HTTPException(HTTP_400_BAD_REQUEST, <<"No TCAP sections axes were specified", {}>>)
    ELSE Returned(NoValue)

\* as _validate_sections, rejecting only when no section is of the service period
_validate_sections_any_valid(sections_axes, service_annuel_id) ==
    IF sections_axes = {}
    THEN HTTPException(HTTP_400_BAD_REQUEST, <<"No TCAP sections axes were specified", {}>>)
    ELSE LET unvalid_sections == {section_axe.libelle :
                                    section_axe \in {s \in sections_axes :
                                        s.service_annuel_id # service_annuel_id}}
         IN  IF \A s \in sections_axes : s.service_annuel_id # service_annuel_id
             THEN HTTPException(HTTP_400_BAD_REQUEST,
                                <<"TCAP sections axes aren't valid on the specified SA",
                                  unvalid_sections>>)
             ELSE Returned(NoValue)

_validate_sections(sections_axes, service_annuel_id) ==
    IF sections_axes = {}
    THEN HTTPException(HTTP_400_BAD_REQUEST, <<"No TCAP sections axes were specified", {}>>)
    ELSE LET unvalid_sections == {section_axe.libelle :
                                    section_axe \in {s \in sections_axes :
                                        s.service_annuel_id # service_annuel_id}}
         IN  IF unvalid_sections # {}
             THEN HTTPException(HTTP_400_BAD_REQUEST,
                                <<"TCAP sections axes aren't valid on the specified SA",
                                  unvalid_sections>>)
             ELSE Returned(NoValue)

\* the dict AxeEf(**...) is built from, or the exception of the first failing check
\* datetime.now(): the time of the request, later than the dates stored
datetime_now == "now"

\* as _make_axe_ef, with the sections looked up before the service period
_make_axe_ef_sections_first(axe_ef, user_id, is_new, session) ==
    LET sections_axes == verify_existence_and_get(List(axe_ef.section_axe_onbs),
                             "section_axe", SectionAxeTable, "onb_tcap", NoColumn, TRUE)
    IN  IF sections_axes.raised # "none" THEN sections_axes
        ELSE
        LET sa == verify_existence_and_get(Scalar(axe_ef.service_annuel_id), "service_annuel",
                                           {[id |-> s] : s \in ServiceAnnuelTable},
                                           NoColumn, NoColumn, FALSE)
        IN  IF sa.raised # "none" THEN sa
            ELSE
            LET valid == _validate_sections(sections_axes.value, axe_ef.service_annuel_id)
            IN  IF valid.raised # "none" THEN valid
                ELSE IF is_new
                THEN Returned([libelle |-> axe_ef.libelle,
                               service_annuel_id |-> axe_ef.service_annuel_id,
                               sections |-> sections_axes.value,
                               created_at |-> datetime_now,
                               created_by |-> user_id])
                ELSE Returned([libelle |-> axe_ef.libelle,
                               service_annuel_id |-> axe_ef.service_annuel_id,
                               sections |-> sections_axes.value,
                               modified_at |-> datetime_now,
                               modified_by |-> user_id])

_make_axe_ef(axe_ef, user_id, is_new, session) ==
    LET sa == verify_existence_and_get(Scalar(axe_ef.service_annuel_id), "service_annuel",
                                       {[id |-> s] : s \in ServiceAnnuelTable},
                                       NoColumn, NoColumn, FALSE)
    IN  IF sa.raised # "none" THEN sa
        ELSE
        LET sections_axes == verify_existence_and_get(List(axe_ef.section_axe_onbs),
                                 "section_axe", SectionAxeTable, "onb_tcap", NoColumn, TRUE)
        IN  IF sections_axes.raised # "none" THEN sections_axes
            ELSE
            LET valid == _validate_sections(sections_axes.value, axe_ef.service_annuel_id)
            IN  IF valid.raised # "none" THEN valid
                ELSE IF is_new
                THEN Returned([libelle |-> axe_ef.libelle,
                               service_annuel_id |-> axe_ef.service_annuel_id,
                               sections |-> sections_axes.value,
                               created_at |-> datetime_now,
                               created_by |-> user_id])
                ELSE Returned([libelle |-> axe_ef.libelle,
                               service_annuel_id |-> axe_ef.service_annuel_id,
                               sections |-> sections_axes.value,
                               modified_at |-> datetime_now,
                               modified_by |-> user_id])

\* AxeEf(id=axe_ef_id, **dict): the attributes set are id and the keys of dict
AxeEf(id, dict) ==
    [key \in DOMAIN dict \cup {"id"} |-> IF key = "id" THEN id ELSE dict[key]]

\* axe_ef_id is the value uuid4() returned
create_axe_ef(request, user_id, session, axe_ef_id) ==
    LET made == _make_axe_ef(request, user_id, TRUE, session)
    IN  IF made.raised # "none" THEN [session |-> session, outcome |-> made]
        ELSE LET done == create_procedure(AxeEf(axe_ef_id, made.value), session)
             IN  IF done.outcome.raised # "none" THEN done
                 ELSE [session |-> done.session,
                       outcome |-> Returned([created |-> axe_ef_id])]

update_axe_ef(axe_ef_id, request, user_id, session) ==
    LET found == verify_existence_and_get(Scalar(axe_ef_id), "axe_ef",
                                          session.pending.axe_ef, NoColumn, NoColumn, TRUE)
    IN  IF found.raised # "none" THEN [session |-> session, outcome |-> found]
        ELSE
        LET made == _make_axe_ef(request, user_id, FALSE, session)
        IN  IF made.raised # "none" THEN [session |-> session, outcome |-> made]
            ELSE LET done == update_procedure(AxeEf(axe_ef_id, made.value),
                                              LoadAxeEf(found.value, session.pending), session)
                 IN  IF done.outcome.raised # "none" THEN done
                     ELSE [session |-> done.session,
                           outcome |-> Returned([updated |-> axe_ef_id])]

delete_axe_ef(axe_ef_id, session) ==
    LET found == verify_existence_and_get(Scalar(axe_ef_id), "axe_ef",
                                          session.pending.axe_ef, NoColumn, NoColumn, TRUE)
    IN  IF found.raised # "none" THEN [session |-> session, outcome |-> found]
        ELSE LET done == delete_procedure(LoadAxeEf(found.value, session.pending), session)
             IN  IF done.outcome.raised # "none" THEN done
                 ELSE [session |-> done.session,
                       outcome |-> Returned([deleted |-> axe_ef_id])]

(***************************************************************************)
(* features/axe_ef/router.py                                               *)
(*                                                                         *)
(* A route calls its service method with keyword arguments.  Python binds  *)
(* them to the parameters of the method and raises TypeError, before the   *)
(* body runs, when a parameter without default receives no argument.       *)
(***************************************************************************)
create_axe_ef_params == {"request", "user_id", "session"}
update_axe_ef_params == {"axe_ef_id", "request", "user_id", "session"}
delete_axe_ef_params == {"axe_ef_id", "session"}
get_axe_ef_params == {"axe_ef_id", "session"}

Missing(params, kwargs) == params \ DOMAIN kwargs

call_create_axe_ef(kwargs, axe_ef_id) ==
    IF Missing(create_axe_ef_params, kwargs) # {}
    THEN [session |-> kwargs.session,
          outcome |-> TypeError(Missing(create_axe_ef_params, kwargs))]
    ELSE create_axe_ef(kwargs.request, kwargs.user_id, kwargs.session, axe_ef_id)

call_update_axe_ef(kwargs) ==
    IF Missing(update_axe_ef_params, kwargs) # {}
    THEN [session |-> kwargs.session,
          outcome |-> TypeError(Missing(update_axe_ef_params, kwargs))]
    ELSE update_axe_ef(kwargs.axe_ef_id, kwargs.request, kwargs.user_id, kwargs.session)

call_delete_axe_ef(kwargs) ==
    IF Missing(delete_axe_ef_params, kwargs) # {}
    THEN [session |-> kwargs.session,
          outcome |-> TypeError(Missing(delete_axe_ef_params, kwargs))]
    ELSE delete_axe_ef(kwargs.axe_ef_id, kwargs.session)

call_get_axe_ef(kwargs) ==
    IF Missing(get_axe_ef_params, kwargs) # {}
    THEN [session |-> kwargs.session,
          outcome |-> TypeError(Missing(get_axe_ef_params, kwargs))]
    ELSE [session |-> kwargs.session,
          outcome |-> get_axe_ef(kwargs.axe_ef_id, kwargs.session)]

\* the route functions: what each passes to the service
route_create_axe_ef(request, session, axe_ef_id) ==
    call_create_axe_ef([request |-> request, session |-> session], axe_ef_id)

route_update_axe_ef(axe_ef_id, request, session) ==
    call_update_axe_ef([axe_ef_id |-> axe_ef_id, request |-> request, session |-> session])

route_delete_axe_ef(axe_ef_id, session) ==
    call_delete_axe_ef([axe_ef_id |-> axe_ef_id, session |-> session])

\* PaginationAxeEf(items=axes_ef, count=count)
route_get_all_paginated_axes_ef(session) ==
    [session |-> session, outcome |-> get_all_axes_ef(session)]

route_get_axe_ef_by_id(axe_ef_id, session) ==
    call_get_axe_ef([axe_ef_id |-> axe_ef_id, session |-> session])

\* status of the HTTP response: the status_code of the route on return, the
\* status of an HTTPException, 500 for any other exception
ResponseStatus(outcome, status_code) ==
    IF outcome.raised = "none" THEN status_code
    ELSE IF outcome.raised = "HTTPException" THEN outcome.status
    ELSE HTTP_500_INTERNAL_SERVER_ERROR

(***************************************************************************)
(* The requests.  A request is served in two steps.  First the handler     *)
(* runs on a session taken from get_sync_session: what it committed is in  *)
(* db, what it left pending is in db_session, its response is in resp.  Then  *)
(* EndRequest tears the session down and the worker is free again.         *)
(***************************************************************************)
Requests ==
    [libelle : Labels,
     service_annuel_id : RequestServiceAnnuels,
     section_axe_onbs : SUBSET RequestOnbs]

NoRequest == [libelle |-> 0, service_annuel_id |-> "none", section_axe_onbs |-> {}]

Uuid4(d) == AxeIds \ StoredIds(d)

NoSession == [closed |-> TRUE]

NoResponse ==
    [op |-> "none", axe_ef_id |-> 0, request |-> NoRequest, raised |-> "none",
     status |-> 0, detail |-> NoValue, body |-> NoValue]

Idle == resp = NoResponse /\ db_session = NoSession

\* the handler has run on its session: the tables as committed, the session
\* as the handler left it, the response
Served(result, response) ==
    /\ db' = result.session.committed
    /\ db_session' = result.session
    /\ resp' = response
    /\ UNCHANGED <<sessionVars, factoryVars, crudVars>>

Response(op, axe_ef_id, request, result, status_code) ==
    [op |-> op,
     axe_ef_id |-> axe_ef_id,
     request |-> request,
     raised |-> result.outcome.raised,
     status |-> ResponseStatus(result.outcome, status_code),
     detail |-> result.outcome.detail,
     body |-> result.outcome.value]

NoCall == [fn |-> "none"]

Init ==
    /\ db = EmptyDb
    /\ db_session = NoSession
    /\ resp = NoResponse
    /\ spc = [r \in 1..NumRequests |-> "idle"]
    /\ skind = [r \in 1..NumRequests |-> "none"]
    /\ slog = [r \in 1..NumRequests |-> <<>>]
    /\ soutcome = [r \in 1..NumRequests |-> "none"]
    /\ _sync_sessionmaker = 0
    /\ _async_sessionmaker = 0
    /\ sm_made = [sync |-> {}, async |-> {}]
    /\ sm_got = [r \in 1..NumRequests |-> 0]
    /\ call = NoCall

\* POST /api/axe_ef
Post ==
    /\ Idle
    /\ \E request \in Requests, axe_ef_id \in Uuid4(db) :
        LET result == route_create_axe_ef(request, Session(db), axe_ef_id)
        IN  Served(result, Response("POST", 0, request, result, HTTP_201_CREATED))

\* PUT /api/axe_ef/{axe_ef_id}
Put ==
    /\ Idle
    /\ \E axe_ef_id \in AxeIds, request \in Requests :
        LET result == route_update_axe_ef(axe_ef_id, request, Session(db))
        IN  Served(result, Response("PUT", axe_ef_id, request, result, HTTP_200_OK))

\* DELETE /api/axe_ef/{axe_ef_id}
Delete ==
    /\ Idle
    /\ \E axe_ef_id \in AxeIds :
        LET result == route_delete_axe_ef(axe_ef_id, Session(db))
        IN  Served(result, Response("DELETE", axe_ef_id, NoRequest, result, HTTP_200_OK))

\* GET /api/axe_ef/{axe_ef_id}
Get ==
    /\ Idle
    /\ \E axe_ef_id \in AxeIds :
        LET result == route_get_axe_ef_by_id(axe_ef_id, Session(db))
        IN  Served(result, Response("GET", axe_ef_id, NoRequest, result, HTTP_200_OK))

GetAll ==
    /\ Idle
    /\ LET result == route_get_all_paginated_axes_ef(Session(db))
       IN  Served(result, Response("GET_ALL", 0, NoRequest, result, HTTP_200_OK))

\* AxeEfService.create_axe_ef called with all of its parameters; status is
\* the status of the HTTPException raised, or the one the route declares
Create ==
    /\ Idle
    /\ \E request \in Requests, user_id \in UserIds, axe_ef_id \in Uuid4(db) :
        LET result == call_create_axe_ef([request |-> request, user_id |-> user_id,
                                          session |-> Session(db)], axe_ef_id)
        IN  Served(result, Response("create_axe_ef", 0, request, result, HTTP_201_CREATED))

\* AxeEfService.update_axe_ef called with all of its parameters; status as
\* for Create
Update ==
    /\ Idle
    /\ \E axe_ef_id \in AxeIds, request \in Requests, user_id \in UserIds :
        LET result == call_update_axe_ef([axe_ef_id |-> axe_ef_id, request |-> request,
                                          user_id |-> user_id, session |-> Session(db)])
        IN  Served(result, Response("update_axe_ef", axe_ef_id, request, result, HTTP_200_OK))

\* get_sync_session after its yield: rollback when the handler raised, then
\* close; what the session had pending is dropped and the response is sent
EndRequest ==
    /\ ~Idle
    /\ db_session' = NoSession
    /\ resp' = NoResponse
    /\ db' = db_session.committed
    /\ UNCHANGED <<sessionVars, factoryVars, crudVars>>

Next ==
    \/ Post
    \/ Put
    \/ Delete
    \/ Get
    \/ GetAll
    \/ Create
    \/ Update
    \/ EndRequest

Spec == Init /\ [][Next]_vars

(***************************************************************************)
(* shared/database/manage_db.py: the request-scoped sessions.              *)
(*                                                                         *)
(* A request r is served by get_sync_session or by get_async_session.      *)
(* The sync generator runs in a worker thread of the framework, so the     *)
(* statements of get_sync_sessionmaker of two requests interleave.         *)
(* slog[r] lists the calls its session object received.  The statements    *)
(* of set_default_timezone may raise (the database refuses them); the      *)
(* handler returns, raises an HTTPException or raises another Exception,   *)
(* and the framework throws what the handler raised into the generator at  *)
(* its yield.                                                              *)
(***************************************************************************)
SessionRequests == 1..NumRequests

HandlerOutcomes == {"returned", "HTTPException", "Exception"}

Call(r, name) == slog' = [slog EXCEPT ![r] = Append(@, name)]

\* get_sync_sessionmaker, run by the worker thread of request r:
\* if _sync_sessionmaker is None
get_sync_sessionmaker_test(r) ==
    /\ spc[r] = "idle"
    /\ skind' = [skind EXCEPT ![r] = "sync"]
    /\ spc' = [spc EXCEPT ![r] = IF _sync_sessionmaker = 0 THEN "sm_make" ELSE "sm_return"]
    /\ UNCHANGED <<slog, soutcome, apiVars, crudVars, factoryVars>>

\* get_sync_sessionmaker: _sync_sessionmaker = sessionmaker(...); the factory
\* constructed by request r is named r
get_sync_sessionmaker_make(r) ==
    /\ spc[r] = "sm_make" /\ skind[r] = "sync"
    /\ _sync_sessionmaker' = r
    /\ sm_made' = [sm_made EXCEPT !.sync = @ \cup {r}]
    /\ spc' = [spc EXCEPT ![r] = "sm_return"]
    /\ UNCHANGED <<skind, slog, soutcome, _async_sessionmaker, sm_got, apiVars, crudVars>>

\* get_sync_sessionmaker: return _sync_sessionmaker
get_sync_sessionmaker_return(r) ==
    /\ spc[r] = "sm_return" /\ skind[r] = "sync"
    /\ sm_got' = [sm_got EXCEPT ![r] = _sync_sessionmaker]
    /\ spc' = [spc EXCEPT ![r] = "open"]
    /\ UNCHANGED <<skind, slog, soutcome, _sync_sessionmaker, _async_sessionmaker, sm_made,
                   apiVars, crudVars>>

\* get_sync_session: db_session = sync_session(), on the factory that
\* get_sync_sessionmaker() returned
SyncOpen(r) ==
    /\ spc[r] = "open" /\ skind[r] = "sync"
    /\ spc' = [spc EXCEPT ![r] = "timezone"]
    /\ Call(r, "init")
    /\ UNCHANGED <<skind, soutcome, apiVars, crudVars, factoryVars>>

\* get_sync_session: set_default_timezone(db_session), before the try block;
\* an exception of it leaves the generator at once
SyncSetTimezone(r, ok) ==
    /\ spc[r] = "timezone" /\ skind[r] = "sync"
    /\ Call(r, "execute")
    /\ IF ok
       THEN spc' = [spc EXCEPT ![r] = "yielded"] /\ UNCHANGED soutcome
       ELSE /\ spc' = [spc EXCEPT ![r] = "done"]
            /\ soutcome' = [soutcome EXCEPT ![r] = "setup_error"]
    /\ UNCHANGED <<skind, apiVars, crudVars, factoryVars>>

\* the handler runs with the yielded session and ends
Handler(r, outcome) ==
    /\ spc[r] = "yielded"
    /\ soutcome' = [soutcome EXCEPT ![r] = outcome]
    /\ spc' = [spc EXCEPT ![r] = IF outcome = "returned" THEN "finally" ELSE "except"]
    /\ UNCHANGED <<skind, slog, apiVars, crudVars, factoryVars>>

\* as SyncExcept, with the exception re-raised and no rollback
SyncExcept_no_rollback(r) ==
    /\ spc[r] = "except" /\ skind[r] = "sync"
    /\ spc' = [spc EXCEPT ![r] = "finally"]
    /\ UNCHANGED <<skind, slog, soutcome, apiVars, crudVars, factoryVars>>

\* get_sync_session: except Exception: db_session.rollback(); raise
SyncExcept(r) ==
    /\ spc[r] = "except" /\ skind[r] = "sync"
    /\ Call(r, "rollback")
    /\ spc' = [spc EXCEPT ![r] = "finally"]
    /\ UNCHANGED <<skind, soutcome, apiVars, crudVars, factoryVars>>

\* get_sync_session: finally: db_session.close()
SyncFinally(r) ==
    /\ spc[r] = "finally" /\ skind[r] = "sync"
    /\ Call(r, "close")
    /\ spc' = [spc EXCEPT ![r] = "done"]
    /\ UNCHANGED <<skind, soutcome, apiVars, crudVars, factoryVars>>

\* get_async_session: async_session = get_async_sessionmaker();
\* async with async_session() as session.  get_async_sessionmaker runs on the
\* event loop and does not await: no other coroutine runs inside it.
AsyncOpen(r) ==
    /\ spc[r] = "idle"
    /\ spc' = [spc EXCEPT ![r] = "timezone"]
    /\ skind' = [skind EXCEPT ![r] = "async"]
    /\ _async_sessionmaker' = IF _async_sessionmaker = 0 THEN r ELSE _async_sessionmaker
    /\ sm_made' = IF _async_sessionmaker = 0
                  THEN [sm_made EXCEPT !.async = @ \cup {r}]
                  ELSE sm_made
    /\ sm_got' = [sm_got EXCEPT ![r] = _async_sessionmaker']
    /\ Call(r, "init")
    /\ UNCHANGED <<soutcome, _sync_sessionmaker, apiVars, crudVars>>

\* get_async_session: await async_set_default_timezone(session), inside the
\* async with block and before the try block
AsyncSetTimezone(r, ok) ==
    /\ spc[r] = "timezone" /\ skind[r] = "async"
    /\ Call(r, "execute")
    /\ IF ok
       THEN spc' = [spc EXCEPT ![r] = "yielded"] /\ UNCHANGED soutcome
       ELSE /\ spc' = [spc EXCEPT ![r] = "aexit"]
            /\ soutcome' = [soutcome EXCEPT ![r] = "setup_error"]
    /\ UNCHANGED <<skind, apiVars, crudVars, factoryVars>>

\* get_async_session: except Exception: await session.rollback(); raise
AsyncExcept(r) ==
    /\ spc[r] = "except" /\ skind[r] = "async"
    /\ Call(r, "rollback")
    /\ spc' = [spc EXCEPT ![r] = "finally"]
    /\ UNCHANGED <<skind, soutcome, apiVars, crudVars, factoryVars>>

\* get_async_session: finally: await session.close()
AsyncFinally(r) ==
    /\ spc[r] = "finally" /\ skind[r] = "async"
    /\ Call(r, "close")
    /\ spc' = [spc EXCEPT ![r] = "aexit"]
    /\ UNCHANGED <<skind, soutcome, apiVars, crudVars, factoryVars>>

\* get_async_session: leaving the async with block closes the session
AsyncExit(r) ==
    /\ spc[r] = "aexit" /\ skind[r] = "async"
    /\ Call(r, "close")
    /\ spc' = [spc EXCEPT ![r] = "done"]
    /\ UNCHANGED <<skind, soutcome, apiVars, crudVars, factoryVars>>

SessionNext ==
    \E r \in SessionRequests :
        \/ get_sync_sessionmaker_test(r)
        \/ get_sync_sessionmaker_make(r)
        \/ get_sync_sessionmaker_return(r)
        \/ SyncOpen(r)
        \/ \E ok \in BOOLEAN : SyncSetTimezone(r, ok)
        \/ \E outcome \in HandlerOutcomes : Handler(r, outcome)
        \/ SyncExcept(r)
        \/ SyncFinally(r)
        \/ AsyncOpen(r)
        \/ \E ok \in BOOLEAN : AsyncSetTimezone(r, ok)
        \/ AsyncExcept(r)
        \/ AsyncFinally(r)
        \/ AsyncExit(r)

SessionSpec == Init /\ [][SessionNext]_vars

Calls(r, name) == {i \in 1..Len(slog[r]) : slog[r][i] = name}

(***************************************************************************)
(* CrudSpec: one call of a helper on a database and arguments drawn from   *)
(* bounded sets.  `call` records the arguments and what the call produced. *)
(***************************************************************************)
MainIds == 1..NumMainIds
LookupIds == 0..NumMainIds      \* 0 matches no row

\* A table the verification helpers are called on: the primary key id, a
\* second key column ref, and a text column that may hold the empty string.
ModelRows == [id : MainIds, ref : MainIds, description : {"", "text"}]
ModelTables == {rows \in SUBSET ModelRows : \A r1, r2 \in rows : r1.id = r2.id => r1 = r2}

ObjectIdArgs == {Scalar(k) : k \in LookupIds} \cup {List(S) : S \in SUBSET LookupIds}

\* the sync helper has no parameter ignore_not_found
call_verify_existence_and_get(object_id, rows, model_column_id, returned_column, return_model, ignore_not_found) ==
    IF ignore_not_found
    THEN TypeError(<<"unexpected keyword argument", "ignore_not_found">>)
    ELSE verify_existence_and_get(object_id, "model", rows, model_column_id,
                                  returned_column, return_model)

\* the same arguments given to the sync and to the async helper
VerifyExistence ==
    /\ call = NoCall
    /\ \E rows \in ModelTables, object_id \in ObjectIdArgs,
          model_column_id \in {NoColumn, "ref"}, returned_column \in {NoColumn, "description"},
          return_model \in BOOLEAN, ignore_not_found \in BOOLEAN :
          call' = [fn |-> "verify_existence_and_get",
                   rows |-> rows, object_id |-> object_id,
                   model_column_id |-> model_column_id,
                   returned_column |-> returned_column,
                   return_model |-> return_model,
                   ignore_not_found |-> ignore_not_found,
                   sync |-> call_verify_existence_and_get(object_id, rows, model_column_id,
                                returned_column, return_model, ignore_not_found),
                   async |-> async_verify_existence_and_get(object_id, "model", rows,
                                model_column_id, returned_column, return_model,
                                ignore_not_found)]
    /\ UNCHANGED <<apiVars, sessionVars, factoryVars>>

\* the errors of the database driver that SQLAlchemy wraps in IntegrityError
IntegrityErrors == {"UniqueViolation", "NotNullViolation", "ForeignKeyViolation",
                    "CheckViolation"}

\* the same IntegrityError caught at the two places that translate it: the
\* except clause of _commit_and_log_session and that of execute_stmt
TranslateIntegrityError ==
    /\ call = NoCall
    /\ \E orig \in IntegrityErrors, libelle \in Labels :
          call' = [fn |-> "IntegrityError", orig |-> orig, libelle |-> libelle,
                   commit |-> HTTPException(IntegrityStatus(orig), <<"model", libelle, orig>>),
                   execute |-> execute_stmt(orig, "model", libelle)]
    /\ UNCHANGED <<apiVars, sessionVars, factoryVars>>

\* The databases and the arguments upsert_procedure is called with.  Stored
\* main rows were created at "t0" by user 7; a payload that sets created_at
\* or created_by carries "t1" and user 8.
SubIds == {1, 2}
SubModels == {<<>>, <<"details">>}
ParentColumns == {[key \in {} |-> NoColumn], [key \in {"details"} |-> "parent_id"]}
Hooks == {"None", "returns", "raises"}

MainRows == [id : MainIds, created_at : {"t0"}, created_by : {7}, libelle : Labels]
MainTables ==
    {rows \in SUBSET MainRows :
        \A r1, r2 \in rows : (r1.id = r2.id \/ r1.libelle = r2.libelle) => r1 = r2}
SubTables(main) ==
    {rows \in SUBSET [id : SubIds, parent_id : {row.id : row \in main}] :
        \A r1, r2 \in rows : r1.id = r2.id => r1 = r2}
Tables ==
    UNION {{[main |-> main, sub |-> [details |-> details]] : details \in SubTables(main)} :
              main \in MainTables}

\* the primary keys a payload may carry: the last one is the key of no stored row
PayloadIds == 1..(NumMainIds + 1)

FullPayloads ==
    UNION {[id : {id}, created_at : {"t1"}, created_by : {8}, libelle : Labels,
            details : SUBSET [id : SubIds, parent_id : {id}]] : id \in PayloadIds}
Payloads ==
    {[key \in keys \cup {"id"} |-> full[key]] :
        full \in FullPayloads, keys \in SUBSET {"created_at", "created_by", "libelle", "details"}}

Upsert ==
    /\ call = NoCall
    /\ \E tables \in Tables, object_to_insert \in Payloads, sub_object_models \in SubModels,
          sub_obj_parent_columns \in ParentColumns, do_update \in BOOLEAN,
          execute_after_insert \in Hooks, execute_after_delete \in Hooks :
          /\ DOMAIN object_to_insert \subseteq MainColumns \cup Range(sub_object_models)
          /\ call' = [fn |-> "upsert_procedure",
                      tables |-> tables,
                      object_to_insert |-> object_to_insert,
                      sub_object_models |-> sub_object_models,
                      sub_obj_parent_columns |-> sub_obj_parent_columns,
                      do_update |-> do_update,
                      execute_after_insert |-> execute_after_insert,
                      execute_after_delete |-> execute_after_delete,
                      run |-> upsert_procedure(tables, object_to_insert, sub_object_models,
                                  sub_obj_parent_columns, do_update, execute_after_insert,
                                  execute_after_delete)]
    /\ UNCHANGED <<apiVars, sessionVars, factoryVars>>

\* The creation and modification columns under one create or update of an
\* axis, through the route ("POST", "PUT") or through the service called with
\* the acting user.  An update finds axis 1 stored with the dates `stored`.
StoredDates ==
    {row \in [id : {1}, created_at : {"t0"}, created_by : UserIds,
              modified_at : {"None", "t0"}, modified_by : UserIds \cup {0}] :
        (row.modified_at = "None") <=> (row.modified_by = 0)}

StampDb == [axe_ef |-> {AxeEfRow(1, 1, "sa1")}, axe_ef_section |-> {AxeEfSectionRow(1, 1)}]

StampCreate ==
    /\ call = NoCall
    /\ \E op \in {"POST", "create_axe_ef"}, request \in Requests, user_id \in UserIds :
          LET session == Session(EmptyDb)
              result == IF op = "POST"
                        THEN route_create_axe_ef(request, session, 1)
                        ELSE call_create_axe_ef([request |-> request, user_id |-> user_id,
                                                 session |-> session], 1)
              made == _make_axe_ef(request, user_id, TRUE, session)
          IN  call' = [fn |-> "stamp", op |-> op, request |-> request, user_id |-> user_id,
                       before |-> NoValue,
                       outcome |-> result.outcome,
                       after |-> IF result.outcome.raised # "none" THEN NoValue
                                 ELSE AddedDates(AxeEf(1, made.value))]
    /\ UNCHANGED <<apiVars, sessionVars, factoryVars>>

StampUpdate ==
    /\ call = NoCall
    /\ \E op \in {"PUT", "update_axe_ef"}, request \in Requests, user_id \in UserIds,
          stored \in StoredDates :
          LET session == Session(StampDb)
              result == IF op = "PUT"
                        THEN route_update_axe_ef(1, request, session)
                        ELSE call_update_axe_ef([axe_ef_id |-> 1, request |-> request,
                                                 user_id |-> user_id, session |-> session])
              made == _make_axe_ef(request, user_id, FALSE, session)
          IN  call' = [fn |-> "stamp", op |-> op, request |-> request, user_id |-> user_id,
                       before |-> stored,
                       outcome |-> result.outcome,
                       after |-> IF result.outcome.raised # "none" THEN stored
                                 ELSE MergedDates(AxeEf(1, made.value), stored)]
    /\ UNCHANGED <<apiVars, sessionVars, factoryVars>>

CrudNext ==
    \/ VerifyExistence
    \/ TranslateIntegrityError
    \/ Upsert
    \/ StampCreate
    \/ StampUpdate

CrudSpec == Init /\ [][CrudNext]_vars

(***************************************************************************)
(* Properties                                                              *)
(***************************************************************************)
ServiceCreateOps == {"create_axe_ef"}
ServiceUpdateOps == {"update_axe_ef"}
ServiceWriteOps == ServiceCreateOps \cup ServiceUpdateOps

\* the sections of the table a request names, and those among them that
\* belong to another service period than the one of the request
Resolved(request) == {sec \in SectionAxeTable : sec.onb_tcap \in request.section_axe_onbs}
Foreign(request) == {sec \in Resolved(request) : sec.service_annuel_id # request.service_annuel_id}

\* existing service period, non-empty section list, every section of the
\* list exists and belongs to the service period
ValidRequest(request) ==
    /\ request.service_annuel_id \in ServiceAnnuelTable
    /\ request.section_axe_onbs # {}
    /\ request.section_axe_onbs \subseteq SectionOnbs
    /\ Foreign(request) = {}

\* C1: every valid create request sent to the POST endpoint is answered 201
\* with a created identifier, and get-by-id on that identifier returns an
\* axis whose section_axes is exactly the requested set of sections.
C1_PostCreates ==
    (resp.op = "POST" /\ ValidRequest(resp.request)) =>
        /\ resp.raised = "none"
        /\ resp.status = HTTP_201_CREATED
        /\ LET got == get_axe_ef(resp.body.created, Session(db))
           IN  /\ got.raised = "none"
               /\ {sec.onb_tcap : sec \in got.value.section_axes} = resp.request.section_axe_onbs

\* C2: after every successful update the stored association set of the axis
\* is exactly the section set of the request.
C2_UpdateReplaces ==
    (resp.op \in ServiceUpdateOps /\ resp.raised = "none") =>
        StoredSections(db, resp.axe_ef_id) = resp.request.section_axe_onbs

\* C3: a create or update request with an empty section list and an existing
\* service period is answered 400 and leaves the stored axes and
\* associations as they were.
C3_EmptySectionsRejected ==
    [][(/\ resp'.op \in ServiceWriteOps
        /\ resp'.request.section_axe_onbs = {}
        /\ resp'.request.service_annuel_id \in ServiceAnnuelTable)
       => (/\ resp'.raised = "HTTPException"
           /\ resp'.status = HTTP_400_BAD_REQUEST
           /\ db' = db)]_vars

\* a request that names at least one section of another service period
\* than its own
NamesForeignSection(request) == Foreign(request) # {}

\* the response is a 400 whose message names the label of every section of
\* another service period
RejectsForeign(response) ==
    /\ response.raised = "HTTPException"
    /\ response.status = HTTP_400_BAD_REQUEST
    /\ {sec.libelle : sec \in Foreign(response.request)} \subseteq response.detail[2]

\* C4 as stated: every create or update request naming at least one section
\* of another service period than its own is answered 400 with a message
\* naming the label of each such section, and nothing is persisted.
C4_ForeignSectionRejected ==
    [][(resp'.op \in ServiceWriteOps /\ NamesForeignSection(resp'.request))
       => (RejectsForeign(resp') /\ db' = db)]_vars

\* C4 amended: the same, provided the service period of the request exists
\* and, for an update, the axis exists; nothing is persisted in any case.
C4_ForeignSectionRejectedAfterLookups ==
    [][(resp'.op \in ServiceWriteOps /\ NamesForeignSection(resp'.request))
       => (/\ db' = db
           /\ resp'.raised = "HTTPException"
           /\ (/\ resp'.request.service_annuel_id \in ServiceAnnuelTable
               /\ (resp'.op \in ServiceUpdateOps => resp'.axe_ef_id \in StoredIds(db)))
              => RejectsForeign(resp'))]_vars

\* an update naming one section of its service period and one of another
\* was answered 400
C4_Witness ==
    /\ resp.op \in ServiceUpdateOps
    /\ resp.status = HTTP_400_BAD_REQUEST
    /\ Foreign(resp.request) # {}
    /\ Resolved(resp.request) \ Foreign(resp.request) # {}
    /\ db.axe_ef # {}

\* C5: every section associated with a stored axis belongs to the service
\* period of the axis.
C5_SameServicePeriod ==
    \A row \in db.axe_ef :
        \A onb \in StoredSections(db, row.id) :
            /\ onb \in SectionOnbs
            /\ SectionAxeRow(onb).service_annuel_id = row.service_annuel_id

\* an axis was moved to another service period by an update
C5_Witness ==
    /\ resp.op \in ServiceUpdateOps
    /\ resp.raised = "none"
    /\ resp.request.service_annuel_id = "sa2"
    /\ StoredSections(db, resp.axe_ef_id) # {}
    /\ \E row \in db.axe_ef : row.service_annuel_id = "sa1"

C7_DeleteRemoves ==
    [][/\ (resp'.op = "DELETE" /\ resp'.axe_ef_id \notin StoredIds(db))
            => (resp'.status = HTTP_404_NOT_FOUND /\ db' = db)
       /\ (resp'.op = "DELETE" /\ resp'.axe_ef_id \in StoredIds(db))
            => (/\ resp'.status = HTTP_200_OK
                /\ db'.axe_ef = {row \in db.axe_ef : row.id # resp'.axe_ef_id}
                /\ StoredSections(db', resp'.axe_ef_id) = {}
                /\ route_get_axe_ef_by_id(resp'.axe_ef_id, Session(db')).outcome.status
                       = HTTP_404_NOT_FOUND
                /\ route_delete_axe_ef(resp'.axe_ef_id, Session(db')).outcome.status
                       = HTTP_404_NOT_FOUND)
       /\ (resp'.op = "GET")
            => (resp'.status = HTTP_404_NOT_FOUND <=> resp'.axe_ef_id \notin StoredIds(db))
       /\ \A id \in StoredIds(db') \ StoredIds(db) :
              /\ resp'.op \in ServiceCreateOps \cup {"POST"}
              /\ resp'.raised = "none"
              /\ resp'.body.created = id]_vars

\* an axis was deleted while another one stays stored
C7_Witness ==
    /\ resp.op = "DELETE"
    /\ resp.status = HTTP_200_OK
    /\ resp.axe_ef_id \notin StoredIds(db)
    /\ db.axe_ef # {}

\* the request passes every check _make_axe_ef makes before the axis is built
PassesChecks(request, d) ==
    \A user_id \in UserIds : _make_axe_ef(request, user_id, TRUE, Session(d)).raised = "none"

\* C8: a create request that passes the checks of the service and carries
\* the label of a stored axis is answered 409; no create request carrying
\* the label of a stored axis persists anything.
C8_DuplicateLabelConflict ==
    [][(/\ resp'.op \in ServiceCreateOps
        /\ \E row \in db.axe_ef : row.libelle = resp'.request.libelle)
       => (/\ db' = db
           /\ resp'.raised = "HTTPException"
           /\ PassesChecks(resp'.request, db) => resp'.status = HTTP_409_CONFLICT)]_vars

\* a create was answered 409
C8_Witness ==
    /\ resp.op \in ServiceCreateOps
    /\ resp.status = HTTP_409_CONFLICT
    /\ \E row \in db.axe_ef : row.libelle = resp.request.libelle

\* C9: every session created by get_sync_session or get_async_session has
\* been closed when its request is over, whichever way the request ended.
C9_SessionClosed ==
    \A r \in SessionRequests :
        (spc[r] = "done" /\ Calls(r, "init") # {}) => Calls(r, "close") # {}

HandlerRaised(r) == soutcome[r] \in {"HTTPException", "Exception"}

\* C10: when the handler of a request raised, its session is rolled back,
\* and rolled back before it is closed; when the handler returned, the
\* session is closed and never rolled back.
C10_RollbackBeforeClose ==
    \A r \in SessionRequests :
        /\ (HandlerRaised(r) /\ spc[r] \in {"finally", "aexit", "done"})
              => Calls(r, "rollback") # {}
        /\ HandlerRaised(r)
              => \A c \in Calls(r, "close") : \E b \in Calls(r, "rollback") : b < c
        /\ soutcome[r] = "returned" => Calls(r, "rollback") = {}
        /\ (soutcome[r] = "returned" /\ spc[r] = "done") => Calls(r, "close") # {}

\* a sync request whose handler raised and an async request whose handler
\* returned are both over
C10_Witness ==
    \E r1, r2 \in SessionRequests :
        /\ skind[r1] = "sync" /\ spc[r1] = "done" /\ soutcome[r1] = "HTTPException"
        /\ slog[r1] = <<"init", "execute", "rollback", "close">>
        /\ skind[r2] = "async" /\ spc[r2] = "done" /\ soutcome[r2] = "returned"
        /\ slog[r2] = <<"init", "execute", "close", "close">>

\* C11: under any interleaving of concurrent requests the session factory
\* of each kind is constructed at most once, and every call of
\* get_sync_sessionmaker (resp. get_async_sessionmaker) returns that instance.
C11_FactoryConstructedOnce ==
    /\ Cardinality(sm_made.sync) <= 1
    /\ Cardinality(sm_made.async) <= 1
    /\ \A r1, r2 \in SessionRequests :
          (sm_got[r1] # 0 /\ sm_got[r2] # 0 /\ skind[r1] = skind[r2])
             => sm_got[r1] = sm_got[r2]

\* the rows of a verification call that the looked-up column matches
Matched(c) ==
    LET column == IF c.model_column_id = NoColumn THEN "id" ELSE c.model_column_id
    IN  {row \in c.rows : IF c.object_id.multiple THEN row[column] \in c.object_id.key
                                                    ELSE row[column] = c.object_id.key}

\* a call of the sync helper for whole records, with a single identifier or a
\* non-empty list
RecordLookup(c) ==
    /\ c.fn = "verify_existence_and_get"
    /\ ~c.ignore_not_found
    /\ c.returned_column = NoColumn
    /\ c.object_id.multiple => c.object_id.key # {}

C13_SyncAsyncIdentical ==
    call.fn = "verify_existence_and_get" =>
        /\ call.sync.raised = call.async.raised
        /\ call.sync.status = call.async.status
        /\ call.sync.raised = "none" => call.sync.value = call.async.value
        /\ call.sync.raised # "none" => call.sync.detail = call.async.detail

\* C14: an integrity violation is translated the same way by the flush/commit
\* of the create, update and delete procedures and by the primary insert of
\* the batch helper: unique violation 409, not-null violation 400, any other
\* integrity violation 500, and no other status.
C14_IntegrityTranslation ==
    call.fn = "IntegrityError" =>
        LET expected == IF call.orig = "UniqueViolation" THEN 409
                        ELSE IF call.orig = "NotNullViolation" THEN 400
                        ELSE 500
        IN  /\ call.commit.raised = "HTTPException" /\ call.commit.status = expected
            /\ call.execute.raised = "HTTPException" /\ call.execute.status = expected

\* a not-null violation translated at both places
C14_Witness ==
    /\ call.fn = "IntegrityError"
    /\ call.orig = "NotNullViolation"
    /\ call.commit.status = 400 /\ call.execute.status = 400

\* positions of the log of the upsert call at which op was issued on table
Issued(op, table) ==
    {i \in 1..Len(call.run.log) : call.run.log[i].op = op /\ call.run.log[i].table = table}

UpsertSucceeded == call.fn = "upsert_procedure" /\ call.run.outcome.raised = "none"

\* the dependent collection the payload gives for key, empty when absent
Collection(key) == DictGet(call.object_to_insert, key, {})

\* C15: upsert_procedure commits exactly once and the commit is its last
\* database action, after the deletion of the prior dependent rows (update
\* mode), the primary insert, every dependent insert and the post-insert
\* hook; when a step raises, nothing is committed.
C15_CommitOnceAtEnd ==
    call.fn = "upsert_procedure" =>
        IF call.run.outcome.raised = "none"
        THEN /\ Issued("commit", "") = {Len(call.run.log)}
             /\ call.run.committed = call.run.pending
             /\ Issued("insert", "main") # {}
             /\ \A key \in Range(call.sub_object_models) :
                   /\ call.do_update => Issued("delete", key) # {}
                   /\ Collection(key) # {} => Issued("insert", key) # {}
             /\ call.execute_after_insert # "None" => Issued("execute_after_insert", "") # {}
        ELSE /\ Issued("commit", "") = {}
             /\ call.run.committed = call.tables

\* an update with a dependent collection and both hooks, committed at the end
C15_Witness ==
    /\ UpsertSucceeded
    /\ call.do_update
    /\ call.execute_after_insert = "returns"
    /\ Issued("delete", "details") # {}
    /\ Issued("insert", "details") # {}
    /\ Issued("execute_after_insert", "") = {Len(call.run.log) - 1}
    /\ Issued("commit", "") = {Len(call.run.log)}

\* C16: in update mode the post-delete hook is invoked after the prior
\* dependent rows are deleted whenever it is supplied, and nothing is invoked
\* when it is not supplied, whether or not a post-insert hook is supplied.
C16_PostDeleteHook ==
    (call.fn = "upsert_procedure" /\ call.do_update /\ Issued("delete", "details") # {}) =>
        IF call.execute_after_delete # "None"
        THEN \E i \in Issued("delete", "details"), j \in Issued("execute_after_delete", "") :
                i < j
        ELSE /\ Issued("execute_after_delete", "") = {}
             /\ call.run.outcome.raised # "TypeError"

\* the main row of the payload's id, before and after the upsert call
StoredBefore == {row \in call.tables.main : row.id = call.object_to_insert.id}
StoredAfter == {row \in call.run.pending.main : row.id = call.object_to_insert.id}

\* the primary insert was executed and the database accepted it
MainInsertDone ==
    /\ call.fn = "upsert_procedure"
    /\ Issued("insert", "main") # {}
    /\ call.run.outcome.raised # "HTTPException"

\* C17: when insert_procedure runs in update mode on a primary key that is
\* already stored, the stored row keeps its id, created_at and created_by and
\* every other column of the payload takes the payload's value; in create
\* mode no stored row is updated.
C17_ImmutableColumns ==
    (call.fn = "upsert_procedure" /\ Issued("insert", "main") # {} /\ StoredBefore # {}) =>
        IF call.do_update
        THEN \A old \in StoredBefore :
                \E new \in StoredAfter :
                   /\ StoredAfter = {new}
                   /\ new.id = old.id
                   /\ new.created_at = old.created_at
                   /\ new.created_by = old.created_by
                   /\ (MainInsertDone /\ "libelle" \in DOMAIN call.object_to_insert)
                         => new.libelle = call.object_to_insert.libelle
        ELSE /\ call.run.pending.main = call.tables.main
             /\ call.run.outcome.status = HTTP_409_CONFLICT

\* an update whose payload carries another label, creation date and creator
\* than the stored row
C17_Witness ==
    /\ MainInsertDone /\ call.do_update
    /\ {"libelle", "created_at", "created_by"} \subseteq DOMAIN call.object_to_insert
    /\ \E old \in StoredBefore, new \in StoredAfter :
          /\ old.libelle # call.object_to_insert.libelle
          /\ new.libelle = call.object_to_insert.libelle
          /\ new.created_by = old.created_by
          /\ new.created_by # call.object_to_insert.created_by

\* C18: after a successful update-mode upsert_procedure the dependent rows
\* stored for the primary key in each configured dependent table are exactly
\* the rows of the payload's collection; each non-empty collection is written
\* by exactly one insert statement, an empty or absent one by none, and no
\* dependent collection is a column of the primary insert.
C18_DependentsReplaced ==
    (UpsertSucceeded /\ call.do_update) =>
        /\ \A key \in Range(call.sub_object_models) :
              /\ {row \in call.run.committed.sub[key] :
                     row.parent_id = call.object_to_insert.id} = Collection(key)
              /\ Cardinality(Issued("insert", key)) = IF Collection(key) # {} THEN 1 ELSE 0
        /\ \A i \in Issued("insert", "main") :
              call.run.log[i].columns \cap Range(call.sub_object_models) = {}

\* C19: the list endpoint returns each axis at most once in items, the items
\* sorted by label ascending, and count is the number of stored axes.
C19_ListAll ==
    resp.op = "GET_ALL" =>
        /\ resp.raised = "none" /\ resp.status = HTTP_200_OK
        /\ \A i, j \in 1..Len(resp.body.items) :
              i < j => /\ resp.body.items[i].id # resp.body.items[j].id
                       /\ resp.body.items[i].libelle <= resp.body.items[j].libelle
        /\ \A i \in 1..Len(resp.body.items) : resp.body.items[i].id \in StoredIds(db)
        /\ resp.body.count = Cardinality(StoredIds(db))

\* two axes listed, the one of the greater identifier first, and an axis
\* counted
C19_Witness ==
    /\ resp.op = "GET_ALL"
    /\ Len(resp.body.items) = 2
    /\ resp.body.items[1].id > resp.body.items[2].id
    /\ resp.body.count = 2

\* C20: a create stamps created_at and created_by with the current time and
\* the acting user and sets no modification date; an update stamps modified_at
\* and modified_by and leaves id, created_at and created_by of the stored axis
\* unchanged.
C20_Stamps ==
    (call.fn = "stamp" /\ ValidRequest(call.request)) =>
        IF call.op \in {"POST", "create_axe_ef"}
        THEN call.after = [id |-> 1, created_at |-> datetime_now, created_by |-> call.user_id,
                           modified_at |-> "None", modified_by |-> 0]
        ELSE call.after = [call.before EXCEPT !.modified_at = datetime_now,
                                              !.modified_by = call.user_id]

\* an update that raised the HTTPException _commit_and_log_session makes of
\* an IntegrityError
FailedAtCommit(response) ==
    /\ response.op \in ServiceUpdateOps
    /\ response.raised = "HTTPException"
    /\ response.status = HTTP_409_CONFLICT

\* C21: when an update fails at flush/commit with an integrity violation,
\* after the sections of the axis were cleared and flushed, the stored axes
\* and associations are, while the response is made and once the request is
\* over, exactly what they were before the request.
C21_FailedUpdateRestores ==
    [][/\ FailedAtCommit(resp') => db' = db
       /\ (FailedAtCommit(resp) /\ resp' = NoResponse) => db' = db]_vars

\* an update of an axis that has sections stored failed with 409 and left
\* another set of sections pending in its session
C21_Witness ==
    /\ FailedAtCommit(resp)
    /\ StoredSections(db, resp.axe_ef_id) # {}
    /\ StoredSections(db_session.pending, resp.axe_ef_id) # StoredSections(db, resp.axe_ef_id)
    /\ db_session.committed = db

\* the status and the subject of the first check of the service that fails
\* for a request on the tables d, <<0, "">> when every check passes: the
\* axis of an update, the service period, the sections, their service period
FirstFailingCheck(op, axe_ef_id, request, d) ==
    IF op \in ServiceUpdateOps /\ axe_ef_id \notin StoredIds(d)
    THEN <<HTTP_404_NOT_FOUND, "axe_ef">>
    ELSE IF request.service_annuel_id \notin ServiceAnnuelTable
    THEN <<HTTP_404_NOT_FOUND, "service_annuel">>
    ELSE IF Resolved(request) = {}
    THEN <<HTTP_404_NOT_FOUND, "section_axe">>
    ELSE IF Foreign(request) # {}
    THEN <<HTTP_400_BAD_REQUEST, "TCAP sections axes aren't valid on the specified SA">>
    ELSE <<0, "">>

\* C22: the checks of a create or an update run in a fixed order and the
\* first that fails decides the response: 404 for the axis of an update
\* whatever the body, then 404 for the service period before any section is
\* looked up, then the section lookup, then 400 for the section validation;
\* when a check fails the session has written nothing, and a request that
\* passes them all is answered by none of these errors.
C22_ChecksInOrder ==
    [][resp'.op \in ServiceWriteOps =>
        LET failing == FirstFailingCheck(resp'.op, resp'.axe_ef_id, resp'.request, db)
        IN  IF failing[1] # 0
            THEN /\ resp'.raised = "HTTPException"
                 /\ resp'.status = failing[1]
                 /\ resp'.detail[1] = failing[2]
                 /\ db_session'.pending = db
                 /\ db_session'.committed = db
                 /\ db' = db
            ELSE resp'.status \in {HTTP_200_OK, HTTP_201_CREATED, HTTP_409_CONFLICT}]_vars

\* an update of a stored axis naming a service period that does not exist
\* and sections that do not exist was answered 404 for the service period
C22_Witness ==
    /\ resp.op \in ServiceUpdateOps
    /\ resp.axe_ef_id \in StoredIds(db)
    /\ resp.request.service_annuel_id \notin ServiceAnnuelTable
    /\ Resolved(resp.request) = {}
    /\ resp.status = HTTP_404_NOT_FOUND
    /\ resp.detail[1] = "service_annuel"

\* the primary keys stored in a main table
MainKeys(main) == {row.id : row \in main}

\* upsert_procedure was called in update mode with a dependent model configured
UpdateWithDependents ==
    /\ call.fn = "upsert_procedure"
    /\ call.do_update
    /\ call.sub_object_models # <<>>

\* C23: upsert_procedure in update mode with at least one dependent model
\* configured, called with a primary key that no stored primary row has,
\* raises 404 before any delete or insert statement is executed and commits
\* nothing; in that configuration update mode never inserts a new primary row.
C23_UpdateOfUnknownKey ==
    /\ (UpdateWithDependents /\ call.object_to_insert.id \notin MainKeys(call.tables.main))
          => /\ call.run.outcome.raised = "HTTPException"
             /\ call.run.outcome.status = HTTP_404_NOT_FOUND
             /\ \A i \in 1..Len(call.run.log) :
                    call.run.log[i].op \notin {"delete", "insert", "commit"}
             /\ call.run.pending = call.tables
             /\ call.run.committed = call.tables
    /\ UpdateWithDependents
          => /\ MainKeys(call.run.pending.main) \subseteq MainKeys(call.tables.main)
             /\ MainKeys(call.run.committed.main) \subseteq MainKeys(call.tables.main)

\* an update naming a key that is not stored, on tables that hold a primary
\* row with dependent rows, with a collection to insert, was refused
C23_Witness ==
    /\ UpdateWithDependents
    /\ call.object_to_insert.id \notin MainKeys(call.tables.main)
    /\ call.tables.main # {}
    /\ call.tables.sub.details # {}
    /\ Collection("details") # {}
    /\ "libelle" \in DOMAIN call.object_to_insert
    /\ call.run.outcome.status = HTTP_404_NOT_FOUND
    /\ call.run.log = <<LogEntry("select", "main", {})>>

====
